---- MODULE Spec2Model ----
(***************************************************************************)
(* kegger: kegg_parser and clean_entry of src/src/kegger/kegg_tools.py.    *)
(*                                                                         *)
(* A text is a sequence of one-character strings.  kegg_parser writes the  *)
(* text to a named temporary file, re-reads it line by line into an        *)
(* ordered mapping tag -> raw lines (saved_rec), normalises that mapping   *)
(* with clean_entry and removes the temporary file.  Each call is a        *)
(* process; the file system (directory + file bodies) is shared.           *)
(***************************************************************************)
EXTENDS Integers, Sequences, FiniteSets, TLC

\* ------------------------------------------------------------------ bounds
MaxLines == 3       \* lines of a generated input text
NumCalls == 2       \* calls of kegg_parser in the concurrent specification
NumNames == 3       \* names the temporary directory can hold

\* --------------------------------------------------------- program constants
TagWidth == 12      \* line[:12] / line[12:]

Calls == 1..NumCalls
Names == 1..NumNames

NL == "\n"
Terminator == <<"/", "/", "/">>
None == <<"None">>                       \* current_key = None

ENTRY == <<"E", "N", "T", "R", "Y">>
NAME == <<"N", "A", "M", "E">>
ORGANISM == <<"O", "R", "G", "A", "N", "I", "S", "M">>
GENE == <<"G", "E", "N", "E">>
ORTHOLOG == <<"O", "R", "T", "H", "O", "L", "O", "G">>
REL_PATHWAY == <<"R", "E", "L", "_", "P", "A", "T", "H", "W", "A", "Y">>
PATHWAY_MAP == <<"P", "A", "T", "H", "W", "A", "Y", "_", "M", "A", "P">>
PATHWAY == <<"P", "A", "T", "H", "W", "A", "Y">>
GENES == <<"G", "E", "N", "E", "S">>
REACTION == <<"R", "E", "A", "C", "T", "I", "O", "N">>
MODULE_TAG == <<"M", "O", "D", "U", "L", "E">>
TwoSpaces == <<" ", " ">>

\* ------------------------------------------------------------ str methods
Min(a, b) == IF a <= b THEN a ELSE b

\* str.isspace on one character (the whitespace str.strip / str.split see)
IsSpace(ch) == ch \in {" ", "\t", "\n"}

RECURSIVE LStrip(_)
LStrip(s) ==
    IF s = <<>> THEN s
    ELSE IF IsSpace(Head(s)) THEN LStrip(Tail(s)) ELSE s

RECURSIVE RStrip(_)
RStrip(s) ==
    IF s = <<>> THEN s
    ELSE IF IsSpace(s[Len(s)]) THEN RStrip(SubSeq(s, 1, Len(s) - 1)) ELSE s

\* s.strip()
Strip(s) == RStrip(LStrip(s))

\* s[:n]
Take(s, n) == SubSeq(s, 1, Min(n, Len(s)))

\* s[n:]
Drop(s, n) == SubSeq(s, n + 1, Len(s))

\* s.startswith(p)
StartsWith(s, p) == Len(s) >= Len(p) /\ SubSeq(s, 1, Len(p)) = p

\* index of the first character of s satisfying IsSpace, 0 if none
FirstSpace(s) ==
    LET I == {i \in 1..Len(s) : IsSpace(s[i])}
    IN  IF I = {} THEN 0 ELSE CHOOSE i \in I : \A j \in I : i <= j

\* s.split(None, 1): at most two parts, split on the first whitespace run
SplitOnce(s) ==
    LET t == LStrip(s)
        k == FirstSpace(t)
    IN  IF t = <<>> THEN <<>>
        ELSE IF k = 0 THEN <<t>>
        ELSE <<SubSeq(t, 1, k - 1), LStrip(Drop(t, k - 1))>>

\* s.split(): every whitespace-separated token, no empty ones
RECURSIVE SplitWS(_)
SplitWS(s) ==
    LET t == LStrip(s)
        k == FirstSpace(t)
    IN  IF t = <<>> THEN <<>>
        ELSE IF k = 0 THEN <<t>>
        ELSE <<SubSeq(t, 1, k - 1)>> \o SplitWS(Drop(t, k - 1))

\* s.split(sep) for a non-empty literal separator
RECURSIVE SplitSep(_, _)
SplitSep(s, sep) ==
    LET I == {i \in 1..(Len(s) - Len(sep) + 1) : SubSeq(s, i, i + Len(sep) - 1) = sep}
        k == IF I = {} THEN 0 ELSE CHOOSE i \in I : \A j \in I : i <= j
    IN  IF k = 0 THEN <<s>>
        ELSE <<SubSeq(s, 1, k - 1)>> \o SplitSep(Drop(s, k - 1 + Len(sep)), sep)

\* iteration over a text file: the lines of t, each with its "\n" kept
RECURSIVE SplitLines(_)
SplitLines(t) ==
    LET I == {i \in 1..Len(t) : t[i] = NL}
        k == IF I = {} THEN 0 ELSE CHOOSE i \in I : \A j \in I : i <= j
    IN  IF t = <<>> THEN <<>>
        ELSE IF k = 0 THEN <<t>>
        ELSE <<SubSeq(t, 1, k)>> \o SplitLines(Drop(t, k))

\* ------------------------------------------------------------------- dict
\* A dict is the sequence of its items [k, v] in insertion order.
EmptyDict == <<>>

KeyIndex(d, k) ==
    LET I == {i \in 1..Len(d) : d[i].k = k}
    IN  IF I = {} THEN 0 ELSE CHOOSE i \in I : TRUE

HasKey(d, k) == KeyIndex(d, k) # 0

DictGet(d, k) == d[KeyIndex(d, k)].v

\* d[k] = v: an existing key keeps its position
DictSet(d, k, v) ==
    IF HasKey(d, k)
    THEN [d EXCEPT ![KeyIndex(d, k)] = [k |-> k, v |-> v]]
    ELSE Append(d, [k |-> k, v |-> v])

\* ------------------------------------------------------------- kegg_parser
\* tag = line[:12].strip()
TagOf(line) == Strip(Take(line, TagWidth))

\* a faulty variant of ValueOf: the payload is not trimmed
ValueOfRaw(line) == Drop(line, TagWidth)

\* value = line[12:].strip()
ValueOf(line) == Strip(Drop(line, TagWidth))

\* a faulty variant of IsTerminator: the terminator is never recognised
IsTerminatorNever(line) == FALSE

\* line.startswith("///")
IsTerminator(line) == StartsWith(line, Terminator)

\* a faulty variant of ScanStep: a continuation line with no current tag is skipped
ScanStepSkip(key, rec, line) ==
    IF IsTerminator(line)
    THEN [status |-> "break", key |-> key, rec |-> rec]
    ELSE IF TagOf(line) # <<>>
    THEN [status |-> "next", key |-> TagOf(line),
          rec |-> DictSet(rec, TagOf(line), <<ValueOf(line)>>)]
    ELSE IF ~HasKey(rec, key)
    THEN [status |-> "next", key |-> key, rec |-> rec]
    ELSE [status |-> "next", key |-> key,
          rec |-> DictSet(rec, key, Append(DictGet(rec, key), ValueOf(line)))]

\* a faulty variant of ScanStep: a continuation line is put in front of the sequence
ScanStepPrepend(key, rec, line) ==
    IF IsTerminator(line)
    THEN [status |-> "break", key |-> key, rec |-> rec]
    ELSE IF TagOf(line) # <<>>
    THEN [status |-> "next", key |-> TagOf(line),
          rec |-> DictSet(rec, TagOf(line), <<ValueOf(line)>>)]
    ELSE IF ~HasKey(rec, key)
    THEN [status |-> "KeyError", key |-> key, rec |-> rec]
    ELSE [status |-> "next", key |-> key,
          rec |-> DictSet(rec, key, <<ValueOf(line)>> \o DictGet(rec, key))]

\* a faulty variant of ScanStep: a tag that opens again accumulates
ScanStepAccumulate(key, rec, line) ==
    IF IsTerminator(line)
    THEN [status |-> "break", key |-> key, rec |-> rec]
    ELSE IF TagOf(line) # <<>>
    THEN [status |-> "next", key |-> TagOf(line),
          rec |-> IF HasKey(rec, TagOf(line))
                  THEN DictSet(rec, TagOf(line),
                               Append(DictGet(rec, TagOf(line)), ValueOf(line)))
                  ELSE DictSet(rec, TagOf(line), <<ValueOf(line)>>)]
    ELSE IF ~HasKey(rec, key)
    THEN [status |-> "KeyError", key |-> key, rec |-> rec]
    ELSE [status |-> "next", key |-> key,
          rec |-> DictSet(rec, key, Append(DictGet(rec, key), ValueOf(line)))]

\* the body of `for line in entry_file` on one line
ScanStep(key, rec, line) ==
    IF IsTerminator(line)
    THEN [status |-> "break", key |-> key, rec |-> rec]
    ELSE IF TagOf(line) # <<>>
    THEN [status |-> "next", key |-> TagOf(line),
          rec |-> DictSet(rec, TagOf(line), <<ValueOf(line)>>)]
    ELSE IF ~HasKey(rec, key)
    THEN [status |-> "KeyError", key |-> key, rec |-> rec]
    ELSE [status |-> "next", key |-> key,
          rec |-> DictSet(rec, key, Append(DictGet(rec, key), ValueOf(line)))]

\* -------------------------------------------------------------- clean_entry
\* A normalised value is a str or a list of str; v holds the str as a
\* one-item sequence, so that values of the two kinds compare.
Str(s) == [kind |-> "str", v |-> <<s>>]
List(l) == [kind |-> "list", v |-> l]

StripAll(value) == [i \in 1..Len(value) |-> Strip(value[i])]

\* zip(*parts): as many tuples as the shortest part has items
ZipStar(parts) ==
    LET n == IF parts = <<>> THEN 0
             ELSE CHOOSE m \in {Len(parts[j]) : j \in 1..Len(parts)} :
                      \A j \in 1..Len(parts) : m <= Len(parts[j])
    IN  [i \in 1..n |-> [j \in 1..Len(parts) |-> parts[j][i]]]

\* a faulty variant of GeneRule: only the well-formed GENE lines are kept
GeneRuleLenient(value) ==
    LET good == SelectSeq(value, LAMBDA v : Len(SplitOnce(v)) = 2)
    IN  [err |-> FALSE,
         ids |-> [j \in 1..Len(good) |-> SplitOnce(good[j])[1]],
         descs |-> [j \in 1..Len(good) |-> SplitOnce(good[j])[2]]]

\* a, b = map(list, zip(*[v.split(None, 1) for v in value]))
GeneRule(value) ==
    LET parts == [j \in 1..Len(value) |-> SplitOnce(value[j])]
        z == ZipStar(parts)
    IN  IF Len(z) # 2
        THEN [err |-> TRUE, ids |-> <<>>, descs |-> <<>>]
        ELSE [err |-> FALSE, ids |-> z[1], descs |-> z[2]]

\* one iteration of clean_entry's loop
CleanTag(cleaned, tag, value) ==
    IF tag = ENTRY
    THEN [err |-> FALSE, rec |-> DictSet(cleaned, tag, List(SplitWS(value[1])))]
    ELSE IF tag \in {NAME, ORGANISM}
    THEN [err |-> FALSE, rec |-> DictSet(cleaned, tag, Str(Strip(value[1])))]
    ELSE IF tag = GENE
    THEN LET g == GeneRule(value)
         IN  IF g.err THEN [err |-> TRUE, rec |-> cleaned]
             ELSE [err |-> FALSE,
                   rec |-> DictSet(DictSet(cleaned, tag, List(g.ids)),
                                   ORTHOLOG, List(g.descs))]
    ELSE IF tag = REL_PATHWAY
    THEN [err |-> FALSE,
          rec |-> DictSet(cleaned, tag,
                          List(SelectSeq(StripAll(value), LAMBDA v : v # <<>>)))]
    ELSE IF tag = PATHWAY_MAP
    THEN [err |-> FALSE, rec |-> DictSet(cleaned, tag, List(SplitSep(value[1], TwoSpaces)))]
    ELSE IF tag \in {PATHWAY, GENES, REACTION, MODULE_TAG}
    THEN [err |-> FALSE,
          rec |-> DictSet(cleaned, tag,
                          List((IF HasKey(cleaned, tag) THEN DictGet(cleaned, tag).v
                                ELSE <<>>) \o StripAll(value)))]
    ELSE [err |-> FALSE, rec |-> DictSet(cleaned, tag, Str(Strip(value[1])))]

RECURSIVE CleanFrom(_, _, _)
CleanFrom(entry, i, cleaned) ==
    IF i > Len(entry) THEN [err |-> FALSE, rec |-> cleaned]
    ELSE LET r == CleanTag(cleaned, entry[i].k, entry[i].v)
         IN  IF r.err THEN [err |-> TRUE, rec |-> EmptyDict]
             ELSE CleanFrom(entry, i + 1, r.rec)

CleanEntry(entry) == CleanFrom(entry, 1, EmptyDict)

\* ------------------------------------------- kegg_parser as a function
RECURSIVE ScanFrom(_, _, _, _)
ScanFrom(lines, i, key, rec) ==
    IF i > Len(lines) THEN [status |-> "break", key |-> key, rec |-> rec]
    ELSE LET r == ScanStep(key, rec, lines[i])
         IN  IF r.status = "next" THEN ScanFrom(lines, i + 1, r.key, r.rec) ELSE r

\* the outcome of kegg_parser(t) run alone: the error raised, the record returned
KeggParser(t) ==
    LET s == ScanFrom(SplitLines(t), 1, None, EmptyDict)
        r == CleanEntry(s.rec)
    IN  IF s.status = "KeyError" THEN [err |-> "KeyError", rec |-> EmptyDict]
        ELSE IF r.err THEN [err |-> "ValueError", rec |-> EmptyDict]
        ELSE [err |-> "none", rec |-> r.rec]

\* ------------------------------------------------------------------ inputs
Pad(tag) == tag \o [i \in 1..(TagWidth - Len(tag)) |-> " "]

NameLine == Pad(NAME) \o <<"f", "o", "o">>
ContLine == Pad(<<>>) \o <<"b", "a", "r">>
TermLine == Terminator
GeneLine == Pad(GENE) \o <<"g", "1", " ", "K", "1", " ", "d">>
GeneContLine == Pad(<<>>) \o <<"g", "2", " ", " ", "K", "2">>
GeneBadLine == Pad(GENE) \o <<"i", "d">>
OrthologLine == Pad(ORTHOLOG) \o <<"x">>
PathwayLine == Pad(PATHWAY) \o <<"p">>
BlankLine == <<>>

LinePool ==
    {NameLine, ContLine, TermLine, GeneLine, GeneContLine, GeneBadLine,
     OrthologLine, PathwayLine, BlankLine}

RECURSIVE JoinLines(_)
JoinLines(ls) ==
    IF ls = <<>> THEN <<>> ELSE Head(ls) \o <<NL>> \o JoinLines(Tail(ls))

\* the spec's continuation example, "NAME  foo\n      bar", as written there
ShortExample ==
    <<"N", "A", "M", "E", " ", " ", "f", "o", "o", NL,
      " ", " ", " ", " ", " ", " ", "b", "a", "r">>

\* the same example with both tag columns twelve characters wide
PaddedExample == NameLine \o <<NL>> \o ContLine

\* the texts a single call is given
Texts ==
    {JoinLines(ls) : ls \in UNION {[1..n -> LinePool] : n \in 0..MaxLines}}
        \cup {ShortExample, PaddedExample}

\* the texts concurrent calls are given
ConcTexts ==
    {JoinLines(<<NameLine, ContLine>>),
     JoinLines(<<GeneLine>>),
     JoinLines(<<ContLine>>)}

\* ------------------------------------------------------------------- state
VARIABLES
    pc,            \* where each call is
    text,          \* request_text
    dir,           \* the temporary directory: name -> file (0: no such name)
    inode,         \* file -> its contents; call c creates file c
    fname,         \* file_path_name
    handle,        \* entry_file: the file open for reading (0: none)
    pos,           \* number of the next line the loop reads
    current_key,
    saved_rec,
    cleaned_recs,
    err            \* the exception the call ended in

vars == <<pc, text, dir, inode, fname, handle, pos, current_key, saved_rec,
          cleaned_recs, err>>

Init ==
    /\ pc = [c \in Calls |-> "idle"]
    /\ text = [c \in Calls |-> <<>>]
    /\ dir = [n \in Names |-> 0]
    /\ inode = [c \in Calls |-> <<>>]
    /\ fname = [c \in Calls |-> 0]
    /\ handle = [c \in Calls |-> 0]
    /\ pos = [c \in Calls |-> 0]
    /\ current_key = [c \in Calls |-> None]
    /\ saved_rec = [c \in Calls |-> EmptyDict]
    /\ cleaned_recs = [c \in Calls |-> EmptyDict]
    /\ err = [c \in Calls |-> "none"]

\* a faulty variant of FreshNames: the name is not created exclusively
FreshNamesAny(d) == Names

\* the names NamedTemporaryFile may pick: it creates the file exclusively
FreshNames(d) == {n \in Names : d[n] = 0}

\* kegg_parser(request_text) is called
Call(c, inputs) ==
    /\ pc[c] = "idle"
    /\ \E t \in inputs : text' = [text EXCEPT ![c] = t]
    /\ pc' = [pc EXCEPT ![c] = "create"]
    /\ UNCHANGED <<dir, inode, fname, handle, pos, current_key, saved_rec,
                   cleaned_recs, err>>

\* tempfile.NamedTemporaryFile(delete=False, mode="w+")
Create(c) ==
    /\ pc[c] = "create"
    /\ \E n \in FreshNames(dir) :
         /\ dir' = [dir EXCEPT ![n] = c]
         /\ fname' = [fname EXCEPT ![c] = n]
    /\ inode' = [inode EXCEPT ![c] = <<>>]
    /\ pc' = [pc EXCEPT ![c] = "write"]
    /\ UNCHANGED <<text, handle, pos, current_key, saved_rec, cleaned_recs, err>>

\* shutil.copyfileobj(res, file_path), and the with block closes the file
Write(c) ==
    /\ pc[c] = "write"
    /\ inode' = [inode EXCEPT ![c] = text[c]]
    /\ pc' = [pc EXCEPT ![c] = "open"]
    /\ UNCHANGED <<text, dir, fname, handle, pos, current_key, saved_rec,
                   cleaned_recs, err>>

\* current_key = None; saved_rec = dict(); open(file_path_name, "r")
Open(c) ==
    /\ pc[c] = "open"
    /\ current_key' = [current_key EXCEPT ![c] = None]
    /\ saved_rec' = [saved_rec EXCEPT ![c] = EmptyDict]
    /\ IF dir[fname[c]] = 0
       THEN /\ pc' = [pc EXCEPT ![c] = "error"]
            /\ err' = [err EXCEPT ![c] = "FileNotFoundError"]
            /\ UNCHANGED <<handle, pos>>
       ELSE /\ handle' = [handle EXCEPT ![c] = dir[fname[c]]]
            /\ pos' = [pos EXCEPT ![c] = 1]
            /\ pc' = [pc EXCEPT ![c] = "scan"]
            /\ UNCHANGED err
    /\ UNCHANGED <<text, dir, inode, fname, cleaned_recs>>

\* one turn of `for line in entry_file`; leaving the with block closes the file
ScanLine(c) ==
    /\ pc[c] = "scan"
    /\ LET lines == SplitLines(inode[handle[c]])
           r == ScanStep(current_key[c], saved_rec[c], lines[pos[c]])
       IN  IF pos[c] > Len(lines)
           THEN /\ pc' = [pc EXCEPT ![c] = "clean"]
                /\ handle' = [handle EXCEPT ![c] = 0]
                /\ UNCHANGED <<pos, current_key, saved_rec, err>>
           ELSE IF r.status = "break"
           THEN /\ pc' = [pc EXCEPT ![c] = "clean"]
                /\ handle' = [handle EXCEPT ![c] = 0]
                /\ UNCHANGED <<pos, current_key, saved_rec, err>>
           ELSE IF r.status = "KeyError"
           THEN /\ pc' = [pc EXCEPT ![c] = "error"]
                /\ err' = [err EXCEPT ![c] = "KeyError"]
                /\ handle' = [handle EXCEPT ![c] = 0]
                /\ UNCHANGED <<pos, current_key, saved_rec>>
           ELSE /\ current_key' = [current_key EXCEPT ![c] = r.key]
                /\ saved_rec' = [saved_rec EXCEPT ![c] = r.rec]
                /\ pos' = [pos EXCEPT ![c] = pos[c] + 1]
                /\ UNCHANGED <<pc, handle, err>>
    /\ UNCHANGED <<text, dir, inode, fname, cleaned_recs>>

\* cleaned_recs = clean_entry(saved_rec)
Clean(c) ==
    /\ pc[c] = "clean"
    /\ LET r == CleanEntry(saved_rec[c])
       IN  IF r.err
           THEN /\ pc' = [pc EXCEPT ![c] = "error"]
                /\ err' = [err EXCEPT ![c] = "ValueError"]
                /\ UNCHANGED cleaned_recs
           ELSE /\ cleaned_recs' = [cleaned_recs EXCEPT ![c] = r.rec]
                /\ pc' = [pc EXCEPT ![c] = "remove"]
                /\ UNCHANGED err
    /\ UNCHANGED <<text, dir, inode, fname, handle, pos, current_key, saved_rec>>

\* os.remove(file_path_name); return cleaned_recs
Remove(c) ==
    /\ pc[c] = "remove"
    /\ IF dir[fname[c]] = 0
       THEN /\ pc' = [pc EXCEPT ![c] = "error"]
            /\ err' = [err EXCEPT ![c] = "FileNotFoundError"]
            /\ UNCHANGED dir
       ELSE /\ dir' = [dir EXCEPT ![fname[c]] = 0]
            /\ pc' = [pc EXCEPT ![c] = "done"]
            /\ UNCHANGED err
    /\ UNCHANGED <<text, inode, fname, handle, pos, current_key, saved_rec,
                   cleaned_recs>>

Step(c, inputs) ==
    \/ Call(c, inputs)
    \/ Create(c)
    \/ Write(c)
    \/ Open(c)
    \/ ScanLine(c)
    \/ Clean(c)
    \/ Remove(c)

\* one call, any generated text
Next == Step(1, Texts)

Spec == Init /\ [][Next]_vars

\* every call, their steps interleaved in any order
ConcNext == \E c \in Calls : Step(c, ConcTexts)

ConcSpec == Init /\ [][ConcNext]_vars

\* ------------------------------------------------- what the claims speak of
Terminal(c) == pc[c] \in {"done", "error"}

\* what the call gave its caller: the exception, or the record returned
Outcome(c) ==
    [err |-> err[c], rec |-> IF pc[c] = "done" THEN cleaned_recs[c] ELSE EmptyDict]

LinesOf(c) == SplitLines(text[c])

\* a line beginning with the three characters of the marker
BeginsWithMarker(line) ==
    Len(line) >= 3 /\ line[1] = "/" /\ line[2] = "/" /\ line[3] = "/"

\* number of the first terminator line of ls, 0 if there is none
FirstTerminator(ls) ==
    LET I == {i \in 1..Len(ls) : BeginsWithMarker(ls[i])}
    IN  IF I = {} THEN 0 ELSE CHOOSE i \in I : \A j \in I : i <= j

\* the lines in front of the first terminator line
BeforeTerminator(ls) ==
    IF FirstTerminator(ls) = 0 THEN ls ELSE SubSeq(ls, 1, FirstTerminator(ls) - 1)

RECURSIVE Concat(_)
Concat(ls) == IF ls = <<>> THEN <<>> ELSE Head(ls) \o Concat(Tail(ls))

\* the two zones of a line: columns 1-12 trimmed, columns 13- trimmed
TagZone(line) == Strip(SubSeq(line, 1, IF Len(line) < 12 THEN Len(line) ELSE 12))
PayloadZone(line) == Strip(SubSeq(line, 13, Len(line)))

\* the numbers of the lines of ls that open tag t
Openings(ls, t) == {i \in 1..Len(ls) : TagZone(ls[i]) = t}

Largest(S) == CHOOSE i \in S : \A j \in S : j <= i
Smallest(S) == CHOOSE i \in S : \A j \in S : i <= j

\* the payloads of the block of ls that opens at line j: line j and the
\* continuation lines that follow it up to the next line that opens a tag
Block(ls, j) ==
    LET later == {i \in (j + 1)..Len(ls) : TagZone(ls[i]) # <<>>}
        last == IF later = {} THEN Len(ls) ELSE Smallest(later) - 1
    IN  [i \in 1..(last - j + 1) |-> PayloadZone(ls[j + i - 1])]

\* the tags ls opens
TagsOf(ls) == {TagZone(ls[i]) : i \in 1..Len(ls)} \ {<<>>}

\* the lines the loop of call c has been through
ScannedBy(c) == SubSeq(LinesOf(c), 1, pos[c] - 1)

Scanning(c) == pc[c] \in {"scan", "clean", "remove", "done", "error"}

ScanOver(c) ==
    \/ pc[c] \in {"clean", "remove", "done"}
    \/ pc[c] = "error" /\ err[c] = "ValueError"

\* C1: the first line beginning with "///" ends scanning: the loop never
\* goes past it, and the call ends as it does on the text cut off just
\* before that line (same record, same error).
C1_TerminatorEndsScan ==
    \A c \in Calls :
        LET ls == LinesOf(c)
            k == FirstTerminator(ls)
        IN  k # 0 =>
              /\ Scanning(c) => pos[c] <= k
              /\ Terminal(c) => Outcome(c) = KeggParser(Concat(SubSeq(ls, 1, k - 1)))

\* C1 witness: a call returned a record from a text with lines, one of them
\* opening a tag, behind the terminator line
C1_Witness ==
    LET ls == LinesOf(1)
        k == FirstTerminator(ls)
    IN  /\ pc[1] = "done"
        /\ k >= 2
        /\ k < Len(ls)
        /\ TagZone(ls[k + 1]) # <<>>
        /\ ~BeginsWithMarker(ls[k + 1])

\* C2: at every point of the scan the raw record holds exactly the tags
\* opened so far, each with the payload (columns 13-, trimmed) of its latest
\* opening line followed by the payloads of the continuation lines behind
\* it, in source order; a continuation line changes no other tag's sequence.
C2_ContinuationAppends ==
    \A c \in Calls :
        (Scanning(c) /\ err[c] # "FileNotFoundError") =>
            LET ls == ScannedBy(c)
            IN  /\ {saved_rec[c][i].k : i \in 1..Len(saved_rec[c])} = TagsOf(ls)
                /\ \A i \in 1..Len(saved_rec[c]) :
                     saved_rec[c][i].v =
                        Block(ls, Largest(Openings(ls, saved_rec[c][i].k)))

\* C2 witness: the scan is over with two tags, the first of which collected
\* a continuation line
C2_Witness ==
    /\ pc[1] = "done"
    /\ Len(saved_rec[1]) = 2
    /\ Len(saved_rec[1][1].v) = 2
    /\ Len(saved_rec[1][2].v) = 1

\* C3 as stated: on the text "NAME  foo\n      bar" the raw record is
\* NAME -> ["foo", "bar"] and the returned record has NAME == "foo".
C3_ShortExample ==
    \A c \in Calls :
        (Terminal(c) /\ text[c] = ShortExample) =>
            /\ pc[c] = "done"
            /\ saved_rec[c] = <<[k |-> NAME, v |-> <<<<"f", "o", "o">>, <<"b", "a", "r">>>>]>>
            /\ HasKey(cleaned_recs[c], NAME)
            /\ DictGet(cleaned_recs[c], NAME) = Str(<<"f", "o", "o">>)

\* C3 amended: on the text whose first line is NAME padded to twelve columns
\* followed by foo and whose second line is twelve blanks followed by bar,
\* the raw record is NAME -> ["foo", "bar"] and the returned record has
\* NAME == "foo".
C3_PaddedExample ==
    \A c \in Calls :
        (Terminal(c) /\ text[c] = PaddedExample) =>
            /\ pc[c] = "done"
            /\ saved_rec[c] = <<[k |-> NAME, v |-> <<<<"f", "o", "o">>, <<"b", "a", "r">>>>]>>
            /\ HasKey(cleaned_recs[c], NAME)
            /\ DictGet(cleaned_recs[c], NAME) = Str(<<"f", "o", "o">>)

\* C3 witness: the call on the padded example has returned
C3_Witness == pc[1] = "done" /\ text[1] = PaddedExample

\* C4: once the scan is over, a tag opened more than once holds only the
\* block of its last opening, and it stands in the raw record's key order
\* where its first opening put it.
C4_TagReset ==
    \A c \in Calls :
        ScanOver(c) =>
            LET ls == ScannedBy(c)
            IN  \A t \in TagsOf(ls) :
                    Cardinality(Openings(ls, t)) > 1 =>
                        /\ HasKey(saved_rec[c], t)
                        /\ DictGet(saved_rec[c], t) = Block(ls, Largest(Openings(ls, t)))
                        /\ KeyIndex(saved_rec[c], t) =
                              Cardinality(TagsOf(SubSeq(ls, 1, Smallest(Openings(ls, t)))))

\* C4 witness: a tag opened twice, with another tag opened in between, and
\* the call returned
C4_Witness ==
    LET ls == ScannedBy(1)
    IN  /\ pc[1] = "done"
        /\ Len(saved_rec[1]) = 2
        /\ Cardinality(Openings(ls, saved_rec[1][1].k)) = 2
        /\ Smallest(Openings(ls, saved_rec[1][2].k))
              < Largest(Openings(ls, saved_rec[1][1].k))

\* the number of a line with an empty tag column that comes before any
\* tag-opening line and before the terminator, 0 if there is none
OrphanLine(ls) ==
    LET I == {k \in 1..Len(ls) :
                 /\ TagZone(ls[k]) = <<>>
                 /\ \A j \in 1..k : ~BeginsWithMarker(ls[j])
                 /\ \A j \in 1..k : TagZone(ls[j]) = <<>>}
    IN  IF I = {} THEN 0 ELSE Smallest(I)

\* C5: a line with an empty tag column before any tag-opening line and
\* before the terminator makes the call end in an error at that line: no
\* record is built, cleaned or returned.
C5_OrphanContinuation ==
    \A c \in Calls :
        LET k == OrphanLine(LinesOf(c))
        IN  k # 0 =>
              /\ pc[c] \notin {"clean", "remove", "done"}
              /\ Terminal(c) =>
                    /\ err[c] = "KeyError"
                    /\ pos[c] = k
                    /\ saved_rec[c] = EmptyDict
                    /\ cleaned_recs[c] = EmptyDict

\* C5 witness: the call failed on a blank first line that a tag-opening line
\* follows
C5_Witness ==
    LET ls == LinesOf(1)
    IN  /\ pc[1] = "error"
        /\ err[1] = "KeyError"
        /\ Len(ls) >= 2
        /\ ls[1] = <<NL>>
        /\ TagZone(ls[2]) # <<>>

\* the part of a raw line before its first whitespace, and the part behind
\* the whitespace run that follows it
IdPart(v) == SubSeq(v, 1, FirstSpace(v) - 1)
DescPart(v) == LStrip(SubSeq(v, FirstSpace(v), Len(v)))

\* C6 as stated: whenever the raw lines under GENE each contain a whitespace
\* separator, the returned record holds the ids under GENE and the
\* descriptions under ORTHOLOG, in raw-line order and index-aligned,
\* whatever other tags the input has.
C6_GenePairs ==
    \A c \in Calls :
        (pc[c] = "done" /\ HasKey(saved_rec[c], GENE)
           /\ \A i \in 1..Len(DictGet(saved_rec[c], GENE)) :
                 FirstSpace(DictGet(saved_rec[c], GENE)[i]) # 0) =>
            LET raw == DictGet(saved_rec[c], GENE)
            IN  /\ HasKey(cleaned_recs[c], GENE)
                /\ HasKey(cleaned_recs[c], ORTHOLOG)
                /\ DictGet(cleaned_recs[c], GENE) =
                      List([i \in 1..Len(raw) |-> IdPart(raw[i])])
                /\ DictGet(cleaned_recs[c], ORTHOLOG) =
                      List([i \in 1..Len(raw) |-> DescPart(raw[i])])

\* C7: when some raw line under GENE, at any position, has no whitespace
\* separator, the call ends in an error and returns no record.
C7_MalformedGene ==
    \A c \in Calls :
        (pc[c] \in {"remove", "done", "error"} /\ err[c] \in {"none", "ValueError"}
           /\ HasKey(saved_rec[c], GENE)
           /\ \E i \in 1..Len(DictGet(saved_rec[c], GENE)) :
                 FirstSpace(DictGet(saved_rec[c], GENE)[i]) = 0) =>
            /\ pc[c] = "error"
            /\ err[c] = "ValueError"
            /\ cleaned_recs[c] = EmptyDict

\* C7 witness: the call failed on three GENE lines of which only the middle
\* one has no separator
C7_Witness ==
    /\ pc[1] = "error"
    /\ err[1] = "ValueError"
    /\ HasKey(saved_rec[1], GENE)
    /\ Len(DictGet(saved_rec[1], GENE)) = 3
    /\ FirstSpace(DictGet(saved_rec[1], GENE)[1]) # 0
    /\ FirstSpace(DictGet(saved_rec[1], GENE)[2]) = 0
    /\ FirstSpace(DictGet(saved_rec[1], GENE)[3]) # 0

\* C8 as stated: a call that returns a record from an input with no GENE tag
\* returns a record with no ORTHOLOG key.
C8_OrthologOnlyWithGene ==
    \A c \in Calls :
        (pc[c] = "done" /\ GENE \notin TagsOf(LinesOf(c))) =>
            ~HasKey(cleaned_recs[c], ORTHOLOG)

\* C9 as stated: when the call has ended, by return or by error, its
\* temporary file no longer exists.
C9_TempFileRemoved ==
    \A c \in Calls :
        Terminal(c) => \A n \in Names : dir[n] # c

\* C10: calls whose steps interleave in any order each end as kegg_parser
\* ends on their own text alone; calls on the same text end alike; no call
\* reads a file another call created, and a call's file stays under its name
\* until the call itself removes it.
C10_CallsIndependent ==
    /\ \A c \in Calls :
         /\ Terminal(c) => Outcome(c) = KeggParser(text[c])
         /\ handle[c] \in {0, c}
         /\ pc[c] \in {"write", "open", "scan", "clean", "remove"} =>
               dir[fname[c]] = c
    /\ \A c, d \in Calls :
         (Terminal(c) /\ Terminal(d) /\ text[c] = text[d]) => Outcome(c) = Outcome(d)

\* C10 witness: call 1 has returned and removed its file while call 2, on a
\* different text and under a different name, is in the middle of its scan
C10_Witness ==
    /\ pc[1] = "done"
    /\ pc[2] = "scan"
    /\ pos[2] = 2
    /\ text[1] # text[2]
    /\ fname[1] # fname[2]
    /\ cleaned_recs[1] # EmptyDict

====
